---- MODULE Spec2Model ----
(***************************************************************************)
(* Model of the task board of src/src/app/page.tsx (TaskDashboard): the    *)
(* list of tasks, the recorded active drag id, the editing-mode marker,    *)
(* and the handlers handleDragStart, handleDragOver, handleDragEnd,        *)
(* handleDelete, handleSaveNewTask and setEditingStatus.                   *)
(*                                                                         *)
(* Events are delivered one at a time and every handler runs against the   *)
(* rendered state of the previous event, so each handler is one action.    *)
(* Array indexes are 0-based as in the source; a sequence position i+1     *)
(* holds the array element i.                                              *)
(***************************************************************************)
EXTENDS Integers, Sequences, FiniteSets, TLC

\* ------------------------------------------------------------------ bounds
\* Largest board the model explores (the source's initial board has five
\* tasks; the model starts from its first MaxTasks ones and never grows the
\* board beyond MaxTasks).
MaxTasks == 3
\* Number of tasks a run may create with handleSaveNewTask.
MaxCreate == 1

\* ------------------------------------------------------- program constants
\* "no value": JavaScript null (activeId, over, findContainer's miss).
Null == "null"

\* The four values of Task.status, which are also the container ids the drag
\* handlers accept.
Containers == {"todo", "done", "failed", "in-progress"}

\* Mutant of RenderedColumns: a column is rendered for every status.
RenderedColumnsAll == Containers

\* The three columns TaskDashboard renders.
RenderedColumns == {"todo", "in-progress", "done"}

Priorities == {"low", "medium", "high"}

\* The initial useState value of tasks (title, description and timestamp are
\* carried along untouched by every handler and are left out).
InitialTasks ==
    << [id |-> "1", priority |-> "low",    status |-> "todo"],
       [id |-> "2", priority |-> "medium", status |-> "todo"],
       [id |-> "3", priority |-> "low",    status |-> "todo"],
       [id |-> "4", priority |-> "high",   status |-> "in-progress"],
       [id |-> "5", priority |-> "high",   status |-> "done"] >>

Min(a, b) == IF a < b THEN a ELSE b
Max(a, b) == IF a > b THEN a ELSE b

\* Date.now().toString() of the k-th creation: the clock advances between two
\* saves, so every creation gets an id of its own, different from "1".."5".
NewId(k) == "t" \o ToString(k)

NewIds == { NewId(k) : k \in 1..MaxCreate }

\* The board the model starts from: the first MaxTasks tasks of the initial
\* board (the initial board after its trailing tasks were deleted).
StartTasks == SubSeq(InitialTasks, 1, Min(MaxTasks, Len(InitialTasks)))

\* An id that names no task of any board of the model (a deleted task).
StaleId == "0"

\* The ids an event may name when the board is ts: the tasks on the board and
\* the stale id.
NameableIds(ts) == { ts[i].id : i \in 1..Len(ts) } \cup {StaleId}

\* What a drag event may name as `over` when the board is ts: an item id, a
\* container id, or null.
Targets(ts) == NameableIds(ts) \cup Containers \cup {Null}

VARIABLES
    tasks,          \* useState<Task[]>: the backing sequence
    activeId,       \* useState<string | null>: the recorded active item id
    editingStatus,  \* useState: the column in "new task" mode, or null
    now,            \* number of ids Date.now() has handed out
    last,           \* history: the last event and the state it was applied to
    gesture         \* history: the drag gesture in progress or just ended

vars == << tasks, activeId, editingStatus, now, last, gesture >>

\* ----------------------------------------------------------- pure helpers
\* Array.prototype.findIndex(task => task.id === id): 0-based, -1 on a miss.
FindIndex(ts, id) ==
    IF \E i \in 1..Len(ts) : ts[i].id = id
    THEN (CHOOSE i \in 1..Len(ts) :
              /\ ts[i].id = id
              /\ \A j \in 1..(i - 1) : ts[j].id # id) - 1
    ELSE -1

\* Mutant of findContainer: a miss yields the first column instead of null.
findContainerDefault(ts, id) ==
    IF \E i \in 1..Len(ts) : ts[i].id = id
    THEN ts[(CHOOSE i \in 1..Len(ts) :
                 /\ ts[i].id = id
                 /\ \A j \in 1..(i - 1) : ts[j].id # id)].status
    ELSE "todo"

\* findContainer: the status of the first task with that id, or null.
findContainer(ts, id) ==
    IF FindIndex(ts, id) = -1 THEN Null ELSE ts[FindIndex(ts, id) + 1].status

\* over.id === 'todo' || ... ? over.id : findContainer(over.id)
overContainerOf(ts, overId) ==
    IF overId \in Containers THEN overId ELSE findContainer(ts, overId)

\* Array.prototype.splice's start index: negative counts from the end,
\* and the result is clamped to 0..length.
SpliceStart(len, start) ==
    IF start < 0 THEN Max(len + start, 0) ELSE Min(start, len)

\* array without the element at 0-based index i (splice(i, 1)).
RemoveAt(arr, i) ==
    [k \in 1..(Len(arr) - 1) |-> IF k <= i THEN arr[k] ELSE arr[k + 1]]

\* array with elem inserted at 0-based index i (splice(i, 0, elem)).
InsertAt(arr, i, elem) ==
    [k \in 1..(Len(arr) + 1) |->
        IF k <= i THEN arr[k] ELSE IF k = i + 1 THEN elem ELSE arr[k - 1]]

\* Mutant of arrayMove: the moved element overwrites the one at the target
\* index instead of being inserted there.
arrayMoveOverwrite(arr, from, to) ==
    IF Len(arr) = 0 \/ from < 0 \/ from >= Len(arr) THEN arr
    ELSE [arr EXCEPT ![SpliceStart(Len(arr) - 1,
                                   IF to < 0 THEN Len(arr) + to ELSE to) + 1]
                         = arr[from + 1]]

\* Mutant of arrayMove: the two elements are swapped instead of one being
\* removed and reinserted.
arraySwap(arr, from, to) ==
    IF Len(arr) = 0 \/ from < 0 \/ from >= Len(arr) THEN arr
    ELSE LET dest == SpliceStart(Len(arr) - 1,
                                 IF to < 0 THEN Len(arr) + to ELSE to)
         IN  [arr EXCEPT ![dest + 1] = arr[from + 1], ![from + 1] = arr[dest + 1]]

\* Mutant of arrayMove: a negative target index is clamped to the front
\* instead of counting from the end.
arrayMoveClampsNegative(arr, from, to) ==
    IF Len(arr) = 0 \/ from < 0 \/ from >= Len(arr) THEN arr
    ELSE InsertAt(RemoveAt(arr, from),
                  SpliceStart(Len(arr) - 1, Max(to, 0)), arr[from + 1])

\* arrayMove of @dnd-kit/sortable:
\*   newArray.splice(to < 0 ? newArray.length + to : to, 0,
\*                   newArray.splice(from, 1)[0])
\* The insertion index is computed before the removal shortens the array.
arrayMove(arr, from, to) ==
    IF Len(arr) = 0 THEN arr
    ELSE LET len  == Len(arr)
             dest == IF to < 0 THEN len + to ELSE to
             src  == SpliceStart(len, from)
         IN  IF src >= len
             THEN \* nothing removed: splice inserts undefined; not reachable
                  \* from handleDragEnd, which passes the index of a present task
                  arr
             ELSE InsertAt(RemoveAt(arr, src),
                           SpliceStart(len - 1, dest), arr[src + 1])

\* Mutant of SetStatus: every task of the item's container is reclassified
\* with it.
SetStatusOfColumn(ts, id, container) ==
    IF \E i \in 1..Len(ts) : ts[i].id = id
    THEN LET old == ts[CHOOSE k \in 1..Len(ts) : ts[k].id = id].status
         IN  [i \in 1..Len(ts) |->
                 IF ts[i].status = old
                 THEN [ts[i] EXCEPT !.status = container]
                 ELSE ts[i]]
    ELSE ts

\* Mutant of SetStatus: the reclassified task is also moved to the end of the
\* backing sequence.
SetStatusAndAppend(ts, id, container) ==
    IF \E i \in 1..Len(ts) : ts[i].id = id
    THEN LET i == CHOOSE k \in 1..Len(ts) : ts[k].id = id
         IN  Append(SelectSeq(ts, LAMBDA t : t.id # id),
                    [ts[i] EXCEPT !.status = container])
    ELSE ts

\* The updater of handleDragOver / handleDragEnd: the first task with the id
\* gets the new status, in place; the array order is kept.
SetStatus(ts, id, container) ==
    LET i == FindIndex(ts, id)
    IN  IF i = -1 THEN ts
        ELSE [ts EXCEPT ![i + 1].status = container]

\* ---------------------------------------------------------------- history
\* Does handleDragOver / handleDragEnd see two different, resolvable containers?
CrossContainer(ts, itemId, overId) ==
    /\ overId # Null
    /\ findContainer(ts, itemId) # Null
    /\ overContainerOf(ts, overId) # Null
    /\ findContainer(ts, itemId) # overContainerOf(ts, overId)

NoPrev == [ev |-> "none", item |-> Null, pre |-> << >>, moved |-> Null]

\* What a cancelling DragEnd (null target) remembers of the event before it:
\* its kind and item, the tasks it found when it was a DragStart, and the
\* container it moved its item to when it was a DragOver across containers.
PrevOf(l) ==
    [ev    |-> l.ev,
     item  |-> l.item,
     pre   |-> IF l.ev = "DragStart" THEN l.pre ELSE << >>,
     moved |-> IF l.ev = "DragOver" /\ CrossContainer(l.pre, l.item, l.target)
               THEN overContainerOf(l.pre, l.target)
               ELSE Null]

\* The record of an event: its kind and arguments and the state it found.
Event(kind, item, target) ==
    [ev |-> kind, item |-> item, target |-> target, pre |-> tasks,
     preActive |-> activeId, preEditing |-> editingStatus,
     prev |-> IF kind = "DragEnd" /\ target = Null THEN PrevOf(last) ELSE NoPrev]

NoEvent ==
    [ev |-> "none", item |-> Null, target |-> Null, pre |-> << >>,
     preActive |-> Null, preEditing |-> Null, prev |-> NoPrev]

\* The record of a gesture: the dragged item and the container it was in at
\* its DragStart.
NoGesture == [item |-> Null, origin |-> Null]

\* ------------------------------------------------------------------- init
Init ==
    /\ tasks = StartTasks
    /\ activeId = Null
    /\ editingStatus = Null
    /\ now = 0
    /\ last = NoEvent
    /\ gesture = NoGesture

\* ---------------------------------------------------------------- handlers
\* Mutant of handleDragStart: starting a drag also leaves the editing mode.
handleDragStartClosesEditor(itemId) ==
    /\ activeId' = itemId
    /\ editingStatus' = Null
    /\ UNCHANGED << tasks, now >>

\* handleDragStart: setActiveId(active.id.toString())
handleDragStart(itemId) ==
    /\ activeId' = itemId
    /\ UNCHANGED << tasks, editingStatus, now >>

\* Mutant of DragOverResult: the live move also repositions the item at the
\* target's index.
DragOverResultRepositions(ts, itemId, overId) ==
    IF CrossContainer(ts, itemId, overId)
    THEN arrayMove(SetStatus(ts, itemId, overContainerOf(ts, overId)),
                   FindIndex(ts, itemId), FindIndex(ts, overId))
    ELSE ts

\* Mutant of DragOverResult: hovering a task of the same container reorders
\* live, as handleDragEnd does at the drop.
DragOverResultLiveReorder(ts, itemId, overId) ==
    IF overId = Null THEN ts
    ELSE IF findContainer(ts, itemId) = Null \/ overContainerOf(ts, overId) = Null
    THEN ts
    ELSE IF findContainer(ts, itemId) # overContainerOf(ts, overId)
    THEN SetStatus(ts, itemId, overContainerOf(ts, overId))
    ELSE IF FindIndex(ts, overId) # -1
    THEN arrayMove(ts, FindIndex(ts, itemId), FindIndex(ts, overId))
    ELSE ts

\* Mutant of DragOverResult: the hovered task takes the dragged task's
\* container in exchange.
DragOverResultExchanges(ts, itemId, overId) ==
    IF CrossContainer(ts, itemId, overId)
    THEN SetStatus(SetStatus(ts, itemId, overContainerOf(ts, overId)),
                   overId, findContainer(ts, itemId))
    ELSE ts

\* Mutant of DragOverResult: no live reassignment during the drag.
DragOverResultIdle(ts, itemId, overId) == ts

\* The tasks handleDragOver leaves behind.
DragOverResult(ts, itemId, overId) ==
    IF overId = Null THEN ts
    ELSE LET activeContainer == findContainer(ts, itemId)
             overContainer   == overContainerOf(ts, overId)
         IN  IF \/ activeContainer = Null
                \/ overContainer = Null
                \/ activeContainer = overContainer
             THEN ts
             ELSE SetStatus(ts, itemId, overContainer)

handleDragOver(itemId, overId) ==
    /\ tasks' = DragOverResult(tasks, itemId, overId)
    /\ UNCHANGED << activeId, editingStatus, now >>

\* Mutant of DragEndResult: a drop on another container also repositions the
\* item at the target's index.
DragEndResultRepositions(ts, itemId, overId) ==
    IF overId = Null THEN ts
    ELSE IF findContainer(ts, itemId) = Null \/ overContainerOf(ts, overId) = Null
    THEN ts
    ELSE IF FindIndex(ts, itemId) # FindIndex(ts, overId)
    THEN arrayMove(SetStatus(ts, itemId, overContainerOf(ts, overId)),
                   FindIndex(ts, itemId), FindIndex(ts, overId))
    ELSE ts

\* Mutant of DragEndResult: a drop in the item's own container always sends
\* the item to the end, whatever the target.
DragEndResultToEnd(ts, itemId, overId) ==
    IF overId = Null THEN ts
    ELSE IF findContainer(ts, itemId) = Null \/ overContainerOf(ts, overId) = Null
    THEN ts
    ELSE IF findContainer(ts, itemId) # overContainerOf(ts, overId)
    THEN SetStatus(ts, itemId, overContainerOf(ts, overId))
    ELSE arrayMove(ts, FindIndex(ts, itemId), -1)

\* Mutant of DragEndResult: when the item moves forward, the target index is
\* lowered by one for the slot the removal frees.
DragEndResultShiftAware(ts, itemId, overId) ==
    IF overId = Null THEN ts
    ELSE IF findContainer(ts, itemId) = Null \/ overContainerOf(ts, overId) = Null
    THEN ts
    ELSE IF findContainer(ts, itemId) # overContainerOf(ts, overId)
    THEN SetStatus(ts, itemId, overContainerOf(ts, overId))
    ELSE IF FindIndex(ts, itemId) = FindIndex(ts, overId)
    THEN ts
    ELSE IF FindIndex(ts, overId) > FindIndex(ts, itemId)
    THEN arrayMove(ts, FindIndex(ts, itemId), FindIndex(ts, overId) - 1)
    ELSE arrayMove(ts, FindIndex(ts, itemId), FindIndex(ts, overId))

\* Mutant of DragEndResult: a drop on another container writes the target's
\* id, not its container, into the item's status.
DragEndResultUsesOverId(ts, itemId, overId) ==
    IF overId = Null THEN ts
    ELSE IF findContainer(ts, itemId) = Null \/ overContainerOf(ts, overId) = Null
    THEN ts
    ELSE IF findContainer(ts, itemId) # overContainerOf(ts, overId)
    THEN SetStatus(ts, itemId, overId)
    ELSE IF FindIndex(ts, itemId) # FindIndex(ts, overId)
    THEN arrayMove(ts, FindIndex(ts, itemId), FindIndex(ts, overId))
    ELSE ts

\* The tasks handleDragEnd leaves behind.
DragEndResult(ts, itemId, overId) ==
    IF overId = Null THEN ts
    ELSE LET activeContainer == findContainer(ts, itemId)
             overContainer   == overContainerOf(ts, overId)
         IN  IF activeContainer = Null \/ overContainer = Null
             THEN ts
             ELSE IF activeContainer # overContainer
             THEN SetStatus(ts, itemId, overContainer)
             ELSE LET activeIndex == FindIndex(ts, itemId)
                      overIndex   == FindIndex(ts, overId)
                  IN  IF activeIndex # overIndex
                      THEN arrayMove(ts, activeIndex, overIndex)
                      ELSE ts

\* Mutant of handleDragEnd: the early return for a null target forgets
\* setActiveId(null).
handleDragEndKeepsOnCancel(itemId, overId) ==
    /\ tasks' = DragEndResult(tasks, itemId, overId)
    /\ activeId' = IF overId = Null THEN activeId ELSE Null
    /\ UNCHANGED << editingStatus, now >>

\* Mutant of handleDragEnd: the early return for unresolved containers
\* forgets setActiveId(null).
handleDragEndKeepsOnStale(itemId, overId) ==
    /\ tasks' = DragEndResult(tasks, itemId, overId)
    /\ activeId' = IF /\ overId # Null
                      /\ \/ findContainer(tasks, itemId) = Null
                         \/ overContainerOf(tasks, overId) = Null
                   THEN activeId
                   ELSE Null
    /\ UNCHANGED << editingStatus, now >>

\* Every return path of handleDragEnd calls setActiveId(null).
handleDragEnd(itemId, overId) ==
    /\ tasks' = DragEndResult(tasks, itemId, overId)
    /\ activeId' = Null
    /\ UNCHANGED << editingStatus, now >>

\* Mutant of handleDelete: the filter keeps the task with the id and drops the
\* others.
handleDeleteKeepsOnly(id) ==
    /\ tasks' = SelectSeq(tasks, LAMBDA t : t.id = id)
    /\ UNCHANGED << activeId, editingStatus, now >>

\* handleDelete: setTasks(tasks.filter(task => task.id !== id))
handleDelete(id) ==
    /\ tasks' = SelectSeq(tasks, LAMBDA t : t.id # id)
    /\ UNCHANGED << activeId, editingStatus, now >>

\* setEditingStatus, as the columns call it: "New" of a column that is not
\* in editing mode passes the column's id, "Cancel" of the editing column
\* passes null.
setEditingStatus(status) ==
    /\ \/ status \in RenderedColumns /\ editingStatus # status
       \/ status = Null /\ editingStatus \in RenderedColumns
    /\ editingStatus' = status
    /\ UNCHANGED << tasks, activeId, now >>

\* Mutant of handleSaveNewTask: the new task is put in front of the others.
handleSaveNewTaskPrepends(priority) ==
    /\ editingStatus \in RenderedColumns
    /\ now < MaxCreate
    /\ Len(tasks) < MaxTasks
    /\ tasks' = << [id |-> NewId(now + 1), priority |-> priority,
                    status |-> editingStatus] >> \o tasks
    /\ editingStatus' = Null
    /\ now' = now + 1
    /\ UNCHANGED activeId

\* handleSaveNewTask, called by the form of the column in editing mode with
\* that column's id as the status.
handleSaveNewTask(priority) ==
    /\ editingStatus \in RenderedColumns
    /\ now < MaxCreate
    /\ Len(tasks) < MaxTasks
    /\ tasks' = Append(tasks, [id |-> NewId(now + 1), priority |-> priority,
                               status |-> editingStatus])
    /\ editingStatus' = Null
    /\ now' = now + 1
    /\ UNCHANGED activeId

\* ------------------------------------------------------- the drag engine
\* The input layer (DndContext) runs one drag at a time: it reports DragStart
\* when no drag is active, and DragOver and DragEnd only while a drag is
\* active and with the id its DragStart had.
DragStart ==
    /\ activeId = Null
    /\ \E x \in NameableIds(tasks) :
        /\ handleDragStart(x)
        /\ last' = Event("DragStart", x, Null)
        /\ UNCHANGED gesture

DragOver ==
    /\ activeId # Null
    /\ \E t \in Targets(tasks) :
        /\ handleDragOver(activeId, t)
        /\ last' = Event("DragOver", activeId, t)
        /\ UNCHANGED gesture

DragEnd ==
    /\ activeId # Null
    /\ \E t \in Targets(tasks) :
        /\ handleDragEnd(activeId, t)
        /\ last' = Event("DragEnd", activeId, t)
        /\ UNCHANGED gesture

Next ==
    \/ DragStart
    \/ DragOver
    \/ DragEnd

Spec == Init /\ [][Next]_vars

\* ------------------------------- the drag engine, gestures kept on record
\* The same three events, with the container the item had at its DragStart
\* remembered until the next DragStart. The gesture record multiplies the
\* states, so this specification starts from a board one task shorter.
GestureStartTasks == SubSeq(StartTasks, 1, Max(Len(StartTasks) - 1, 0))

InitGesture ==
    /\ tasks = GestureStartTasks
    /\ activeId = Null
    /\ editingStatus = Null
    /\ now = 0
    /\ last = NoEvent
    /\ gesture = NoGesture

GestureStart ==
    /\ activeId = Null
    /\ \E x \in NameableIds(tasks) :
        /\ handleDragStart(x)
        /\ last' = Event("DragStart", x, Null)
        /\ gesture' = [item |-> x, origin |-> findContainer(tasks, x)]

GestureOver ==
    /\ activeId # Null
    /\ \E t \in Targets(tasks) :
        /\ handleDragOver(activeId, t)
        /\ last' = Event("DragOver", activeId, t)
        /\ UNCHANGED gesture

GestureEnd ==
    /\ activeId # Null
    /\ \E t \in Targets(tasks) :
        /\ handleDragEnd(activeId, t)
        /\ last' = Event("DragEnd", activeId, t)
        /\ UNCHANGED gesture

NextGesture ==
    \/ GestureStart
    \/ GestureOver
    \/ GestureEnd

SpecGesture == InitGesture /\ [][NextGesture]_vars

\* ------------------------------------- the board and its collaborators
\* Creation, deletion and the editing mode, with drags being started at any
\* time: handleDragStart itself has no guard against a drag being active.
AnyDragStart ==
    \E x \in NameableIds(tasks) :
        /\ handleDragStart(x)
        /\ last' = Event("DragStart", x, Null)
        /\ UNCHANGED gesture

Delete ==
    \E x \in NameableIds(tasks) :
        /\ handleDelete(x)
        /\ last' = Event("Delete", x, Null)
        /\ UNCHANGED gesture

SetEditing ==
    \E s \in RenderedColumns \cup {Null} :
        /\ setEditingStatus(s)
        /\ last' = Event("SetEditing", Null, s)
        /\ UNCHANGED gesture

Save ==
    \E p \in Priorities :
        /\ handleSaveNewTask(p)
        /\ last' = Event("Save", NewId(now + 1), editingStatus)
        /\ UNCHANGED gesture

NextBoard ==
    \/ AnyDragStart
    \/ Delete
    \/ SetEditing
    \/ Save

SpecBoard == Init /\ [][NextBoard]_vars

\* ------------------------------------------------- the rendered board
\* The board as the rendered page drives it: a drag starts on a task that is
\* on the board, and its target is a task on the board, one of the rendered
\* columns, or nothing; tasks are created through the forms of the rendered
\* columns, with the priority the form starts with, and deleted through
\* their own delete buttons. The board starts one task shorter, which leaves
\* the forms room for a new task. The history variables are not used.
RenderedIds(ts) == { ts[i].id : i \in 1..Len(ts) }

RenderedTargets(ts) == RenderedIds(ts) \cup RenderedColumns \cup {Null}

RenderedDragStart ==
    /\ activeId = Null
    /\ \E x \in RenderedIds(tasks) : handleDragStart(x)
    /\ UNCHANGED << last, gesture >>

RenderedDragOver ==
    /\ activeId # Null
    /\ \E t \in RenderedTargets(tasks) : handleDragOver(activeId, t)
    /\ UNCHANGED << last, gesture >>

RenderedDragEnd ==
    /\ activeId # Null
    /\ \E t \in RenderedTargets(tasks) : handleDragEnd(activeId, t)
    /\ UNCHANGED << last, gesture >>

RenderedDelete ==
    /\ \E x \in RenderedIds(tasks) : handleDelete(x)
    /\ UNCHANGED << last, gesture >>

RenderedSetEditing ==
    /\ \E s \in RenderedColumns \cup {Null} : setEditingStatus(s)
    /\ UNCHANGED << last, gesture >>

RenderedSave ==
    /\ handleSaveNewTask("medium")
    /\ UNCHANGED << last, gesture >>

NextRendered ==
    \/ RenderedDragStart
    \/ RenderedDragOver
    \/ RenderedDragEnd
    \/ RenderedDelete
    \/ RenderedSetEditing
    \/ RenderedSave

SpecRendered == InitGesture /\ [][NextRendered]_vars

\* ===================================================================
\* Properties
\* ===================================================================
DragEvents == {"DragStart", "DragOver", "DragEnd"}

\* How many tasks of ts carry the id.
IdCount(ts, id) == Cardinality({ i \in 1..Len(ts) : ts[i].id = id })

\* Do two boards hold the same multiset of ids?
SameIds(ts, us) ==
    /\ Len(ts) = Len(us)
    /\ \A id \in NameableIds(ts) \cup NameableIds(us) :
           IdCount(ts, id) = IdCount(us, id)

\* ts without the tasks that carry the id, order kept.
Without(ts, id) == SelectSeq(ts, LAMBDA t : t.id # id)

\* The ids of a board, in order.
IdsOf(ts) == [i \in 1..Len(ts) |-> ts[i].id]

\* The statuses of a board, in order.
StatusesOf(ts) == [i \in 1..Len(ts) |-> ts[i].status]

\* The container handleDragOver / handleDragEnd resolved for the last event.
LastOverContainer == overContainerOf(last.pre, last.target)

\* The last event was a DragOver or DragEnd that saw two different containers.
LastWasCrossMove ==
    /\ last.ev \in {"DragOver", "DragEnd"}
    /\ CrossContainer(last.pre, last.item, last.target)

\* ------------------------------------------------------------------ C1
\* C1: after any sequence of DragStart, DragOver and DragEnd events the
\* multiset of item ids is the one the board had before the sequence, and
\* every single drag event leaves the multiset of ids as it found it.
C1_Conservation ==
    /\ SameIds(tasks, StartTasks)
    /\ last.ev \in DragEvents => SameIds(tasks, last.pre)

\* A reorder and a reclassification have both happened.
C1_Witness ==
    /\ last.ev = "DragEnd"
    /\ IdsOf(tasks) # IdsOf(StartTasks)
    /\ IdsOf(last.pre) # IdsOf(tasks)
    /\ StatusesOf(tasks) # StatusesOf(StartTasks)

\* ------------------------------------------------------------------ C2
\* C2: a DragOver that sees two different, resolvable containers gives the
\* active item the resolved target container as its status and leaves the
\* order of the backing sequence and every other item as they were.
C2_CrossContainerDragOver ==
    (last.ev = "DragOver" /\ CrossContainer(last.pre, last.item, last.target))
    => /\ Len(tasks) = Len(last.pre)
       /\ \A i \in 1..Len(last.pre) :
              tasks[i] = IF last.pre[i].id = last.item
                         THEN [last.pre[i] EXCEPT !.status = LastOverContainer]
                         ELSE last.pre[i]

\* Scenario A: [T1(todo), T2(todo), T3(done)], DragOver(T1, T3).
C2_Witness ==
    /\ last.ev = "DragOver"
    /\ last.item = "1"
    /\ last.target = "3"
    /\ IdsOf(last.pre) = << "1", "2", "3" >>
    /\ StatusesOf(last.pre) = << "todo", "todo", "done" >>
    /\ IdsOf(tasks) = << "1", "2", "3" >>
    /\ StatusesOf(tasks) = << "done", "todo", "done" >>

\* ------------------------------------------------------------------ C3
\* C3: a DragEnd onto an existing item of the active item's container puts
\* the active item at the index the target had in the full backing sequence,
\* keeps the relative order of all other items, and changes no status.
C3_IntraContainerReorder ==
    (/\ last.ev = "DragEnd"
     /\ FindIndex(last.pre, last.item) # -1
     /\ FindIndex(last.pre, last.target) # -1
     /\ findContainer(last.pre, last.item) = findContainer(last.pre, last.target))
    => /\ FindIndex(tasks, last.item) = FindIndex(last.pre, last.target)
       /\ Without(tasks, last.item) = Without(last.pre, last.item)
       /\ tasks[FindIndex(tasks, last.item) + 1]
              = last.pre[FindIndex(last.pre, last.item) + 1]

\* Scenario B: [T1, T2, T3] all todo, DragEnd(T1, T3) gives [T2, T3, T1].
C3_Witness ==
    /\ last.ev = "DragEnd"
    /\ last.item = "1"
    /\ last.target = "3"
    /\ IdsOf(last.pre) = << "1", "2", "3" >>
    /\ StatusesOf(last.pre) = << "todo", "todo", "todo" >>
    /\ IdsOf(tasks) = << "2", "3", "1" >>

\* ------------------------------------------------------------------ C4
\* C4 as stated: when the container resolved for the target at DragEnd
\* differs from the container the item had at DragStart, DragEnd gives the
\* item the resolved container and leaves its position as it was.
C4_PreGestureContainer ==
    (/\ last.ev = "DragEnd"
     /\ gesture.item = last.item
     /\ gesture.origin # Null
     /\ last.target # Null
     /\ LastOverContainer # Null
     /\ LastOverContainer # gesture.origin)
    => /\ findContainer(tasks, last.item) = LastOverContainer
       /\ FindIndex(tasks, last.item) = FindIndex(last.pre, last.item)

\* C4 amended: when the container resolved for the target at DragEnd
\* differs from the container the item is in at that DragEnd, DragEnd gives
\* the item the resolved container and leaves the backing sequence's order,
\* and so the item's position, as it was.
C4_CurrentContainer ==
    (last.ev = "DragEnd" /\ CrossContainer(last.pre, last.item, last.target))
    => /\ findContainer(tasks, last.item) = LastOverContainer
       /\ FindIndex(tasks, last.item) = FindIndex(last.pre, last.item)
       /\ IdsOf(tasks) = IdsOf(last.pre)

\* A drop on a task of another column by an item that is still in the
\* container it had at DragStart.
C4_Witness ==
    /\ last.ev = "DragEnd"
    /\ gesture.item = last.item
    /\ gesture.origin = findContainer(last.pre, last.item)
    /\ FindIndex(last.pre, last.target) # -1
    /\ CrossContainer(last.pre, last.item, last.target)
    /\ findContainer(tasks, last.item) # findContainer(last.pre, last.item)

\* ------------------------------------------------------------------ C5
\* C5: a DragEnd with a null target leaves the tasks as they were right
\* before it and clears the recorded active id; right after a DragStart it
\* leaves the tasks as they were before that DragStart.
C5_Cancellation ==
    (last.ev = "DragEnd" /\ last.target = Null)
    => /\ tasks = last.pre
       /\ activeId = Null
       /\ (last.prev.ev = "DragStart" /\ last.prev.item = last.item)
              => tasks = last.prev.pre

\* Scenario C: DragStart(T1), DragEnd(T1, null).
C5_Witness ==
    /\ last.ev = "DragEnd"
    /\ last.target = Null
    /\ last.item = "1"
    /\ last.preActive = "1"
    /\ last.prev.ev = "DragStart"
    /\ FindIndex(last.prev.pre, "1") # -1
    /\ activeId = Null

\* ------------------------------------------------------------------ C6
\* C6: when a DragOver moved the item to another container c and the next
\* event is a DragEnd with a null target, the item's status after it is c.
C6_NoRollback ==
    (/\ last.ev = "DragEnd"
     /\ last.target = Null
     /\ last.prev.ev = "DragOver"
     /\ last.prev.item = last.item
     /\ last.prev.moved # Null)
    => findContainer(tasks, last.item) = last.prev.moved

\* T1 of the all-todo board was dragged over "done" and the drag cancelled.
C6_Witness ==
    /\ last.ev = "DragEnd"
    /\ last.target = Null
    /\ last.item = "1"
    /\ last.prev.ev = "DragOver"
    /\ last.prev.moved = "done"
    /\ findContainer(tasks, "1") = "done"
    /\ findContainer(StartTasks, "1") = "todo"

\* ------------------------------------------------------------------ C7
\* The last event named an active id that is no task, or a target that is
\* neither a task nor a container id.
LastWasStale ==
    /\ last.ev \in {"DragOver", "DragEnd"}
    /\ \/ FindIndex(last.pre, last.item) = -1
       \/ /\ last.target \notin Containers
          /\ FindIndex(last.pre, last.target) = -1

\* C7: a DragOver or DragEnd with a stale active id or a stale target
\* leaves the tasks as they were; such a DragEnd clears the active id.
C7_StaleIsNoOp ==
    LastWasStale
    => /\ tasks = last.pre
       /\ last.ev = "DragEnd" => activeId = Null

\* Scenario D: a DragOver of a present task over an id that is no task.
C7_Witness ==
    /\ last.ev = "DragOver"
    /\ FindIndex(last.pre, last.item) # -1
    /\ last.target = StaleId
    /\ FindIndex(last.pre, StaleId) = -1
    /\ tasks = last.pre

\* ------------------------------------------------------------------ C8
\* todoTasks / inProgressTasks / doneTasks: the tasks of one status, in the
\* order of the backing sequence.
Filtered(ts, status) == SelectSeq(ts, LAMBDA t : t.status = status)

\* C8 as stated: after a cross-container move the item is the last element
\* of its new container's filtered view.
C8_LastOfView ==
    LastWasCrossMove
    => LET view == Filtered(tasks, LastOverContainer)
       IN  /\ Len(view) > 0
           /\ view[Len(view)].id = last.item

\* C8 amended: after a cross-container move the item stands in its new
\* container's filtered view where its unchanged backing-sequence position
\* puts it: behind the members that precede it in the backing sequence and
\* before the members that follow it, whose order is unchanged.
C8_PlaceInView ==
    LastWasCrossMove
    => LET view   == Filtered(tasks, LastOverContainer)
           before == Filtered(SubSeq(last.pre, 1, FindIndex(last.pre, last.item)),
                              LastOverContainer)
       IN  /\ FindIndex(tasks, last.item) = FindIndex(last.pre, last.item)
           /\ FindIndex(view, last.item) = Len(before)
           /\ Without(view, last.item) = Filtered(last.pre, LastOverContainer)

\* Scenario A again: T1 joins T3 in "done" and stands before it.
C8_Witness ==
    /\ LastWasCrossMove
    /\ Len(Filtered(tasks, LastOverContainer)) = 2
    /\ Filtered(tasks, LastOverContainer)[1].id = last.item

\* ------------------------------------------------------------------ C9
\* C9: after every DragEnd the recorded active item id is null.
C9_DragEndClearsActive ==
    last.ev = "DragEnd" => activeId = Null

\* A DragEnd that returned early because the active id resolved to nothing.
C9_Witness ==
    /\ last.ev = "DragEnd"
    /\ last.preActive = StaleId
    /\ last.target \in Containers
    /\ activeId = Null

\* ----------------------------------------------------------------- C10
\* C10: DragStart records the item id as the active id and leaves the tasks
\* and the editing-mode marker as they were, whether or not a drag was
\* already recorded.
C10_DragStartFrame ==
    last.ev = "DragStart"
    => /\ activeId = last.item
       /\ tasks = last.pre
       /\ editingStatus = last.preEditing

\* A DragStart while another item was recorded as active and a column was in
\* editing mode.
C10_Witness ==
    /\ last.ev = "DragStart"
    /\ last.preActive # Null
    /\ last.preActive # last.item
    /\ last.preEditing \in RenderedColumns
    /\ activeId = last.item

\* ----------------------------------------------------------------- C11
\* The last event was a DragOver or DragEnd whose active item and target
\* resolved to one and the same container.
LastWasSameContainer ==
    /\ last.ev \in {"DragOver", "DragEnd"}
    /\ last.target # Null
    /\ findContainer(last.pre, last.item) # Null
    /\ findContainer(last.pre, last.item) = LastOverContainer

\* C11: a DragOver whose active item and target resolve to the same
\* container changes neither the order of the tasks nor any status.
C11_SameContainerDragOver ==
    (last.ev = "DragOver" /\ LastWasSameContainer) => tasks = last.pre

\* A DragOver of a task over another task of its container, which a DragEnd
\* would have reordered.
C11_Witness ==
    /\ last.ev = "DragOver"
    /\ LastWasSameContainer
    /\ FindIndex(last.pre, last.target) # -1
    /\ last.target # last.item
    /\ DragEndResult(last.pre, last.item, last.target) # last.pre
    /\ tasks = last.pre

\* ----------------------------------------------------------------- C12
\* C12: once DragOver(x, t) has been handled, handling the same DragOver
\* again leaves the tasks as the first one left them.
C12_DragOverIdempotent ==
    last.ev = "DragOver"
    => DragOverResult(tasks, last.item, last.target) = tasks

\* The first DragOver did move the item to another container.
C12_Witness ==
    /\ last.ev = "DragOver"
    /\ CrossContainer(last.pre, last.item, last.target)
    /\ FindIndex(last.pre, last.target) # -1
    /\ tasks # last.pre
    /\ findContainer(tasks, last.item) = findContainer(tasks, last.target)

\* ----------------------------------------------------------------- C13
\* C13: DragEnd(x, x) for a present item x leaves the tasks as they were.
C13_ReorderOntoItself ==
    (/\ last.ev = "DragEnd"
     /\ last.target = last.item
     /\ FindIndex(last.pre, last.item) # -1)
    => tasks = last.pre

\* A task that is not the last one was dropped on itself.
C13_Witness ==
    /\ last.ev = "DragEnd"
    /\ last.target = last.item
    /\ FindIndex(last.pre, last.item) # -1
    /\ FindIndex(last.pre, last.item) < Len(last.pre) - 1
    /\ tasks = last.pre

\* ----------------------------------------------------------------- C14
\* C14: deleting an id removes the task with that id and leaves the other
\* tasks as they were, in the order they had; deleting an id no task has
\* changes nothing.
C14_Deletion ==
    last.ev = "Delete"
    => LET i == FindIndex(last.pre, last.item)
       IN  IF i = -1
           THEN tasks = last.pre
           ELSE /\ Len(tasks) = Len(last.pre) - 1
                /\ \A k \in 1..Len(tasks) :
                       tasks[k] = IF k <= i THEN last.pre[k]
                                            ELSE last.pre[k + 1]

\* The first task of a board of several tasks, one of them created in
\* another column, was deleted.
C14_Witness ==
    /\ last.ev = "Delete"
    /\ FindIndex(last.pre, last.item) = 0
    /\ Len(last.pre) >= 2
    /\ \E k \in 1..Len(last.pre) : last.pre[k].status # "todo"
    /\ Len(tasks) = Len(last.pre) - 1

\* ----------------------------------------------------------------- C15
\* C15: saving a new task appends exactly one task, with a fresh id and the
\* status of the column whose form was open, at the end of the tasks, leaves
\* the tasks that were there in place, and closes the form.
C15_Creation ==
    last.ev = "Save"
    => /\ Len(tasks) = Len(last.pre) + 1
       /\ SubSeq(tasks, 1, Len(last.pre)) = last.pre
       /\ tasks[Len(tasks)].status = last.preEditing
       /\ tasks[Len(tasks)].id = last.item
       /\ IdCount(last.pre, last.item) = 0
       /\ editingStatus = Null

\* A task was created in the "done" column of a board that held tasks.
C15_Witness ==
    /\ last.ev = "Save"
    /\ last.preEditing = "done"
    /\ Len(last.pre) >= 1
    /\ Len(tasks) = Len(last.pre) + 1
    /\ tasks[Len(tasks)].status = "done"

\* ----------------------------------------------------------------- C16
\* C16: DragEnd(x, c) with c the id of the container x is in moves x to the
\* last position of the whole backing sequence; the other tasks keep their
\* relative order and no status changes.
C16_DropOnOwnContainer ==
    (/\ last.ev = "DragEnd"
     /\ last.target \in Containers
     /\ findContainer(last.pre, last.item) = last.target)
    => /\ FindIndex(tasks, last.item) = Len(last.pre) - 1
       /\ Without(tasks, last.item) = Without(last.pre, last.item)
       /\ tasks[Len(tasks)] = last.pre[FindIndex(last.pre, last.item) + 1]

\* The first task of the board, moved during the drag to a column that holds
\* no other task, was dropped on that column and is now the last task.
C16_Witness ==
    /\ last.ev = "DragEnd"
    /\ last.target \in RenderedColumns
    /\ findContainer(last.pre, last.item) = last.target
    /\ findContainer(StartTasks, last.item) # last.target
    /\ Len(Filtered(last.pre, last.target)) = 1
    /\ FindIndex(last.pre, last.item) = 0
    /\ Len(last.pre) >= 3
    /\ FindIndex(tasks, last.item) = Len(tasks) - 1

\* ----------------------------------------------------------------- C17
\* C17: for a DragEnd(x, t) with t a task of x's container, that container's
\* filtered view afterwards is the array-move of x to t's place applied to
\* its filtered view before, and every other container's view is unchanged.
C17_ViewReorder ==
    (/\ last.ev = "DragEnd"
     /\ LastWasSameContainer
     /\ FindIndex(last.pre, last.target) # -1)
    => LET c    == findContainer(last.pre, last.item)
           view == Filtered(last.pre, c)
       IN  /\ Filtered(tasks, c) =
                  arrayMove(view, FindIndex(view, last.item),
                            FindIndex(view, last.target))
           /\ \A d \in Containers \ {c} :
                  Filtered(tasks, d) = Filtered(last.pre, d)

\* x was dropped on a task t of its container while a task of another
\* container lay between them in the backing sequence.
C17_Witness ==
    /\ last.ev = "DragEnd"
    /\ LastWasSameContainer
    /\ FindIndex(last.pre, last.target) # -1
    /\ \E k \in 1..Len(last.pre) :
           /\ last.pre[k].status # findContainer(last.pre, last.item)
           /\ \/ /\ FindIndex(last.pre, last.item) < k - 1
                 /\ k - 1 < FindIndex(last.pre, last.target)
              \/ /\ FindIndex(last.pre, last.target) < k - 1
                 /\ k - 1 < FindIndex(last.pre, last.item)
    /\ tasks # last.pre

\* ----------------------------------------------------------------- C18
\* C18: after a DragOver or DragEnd every task other than the dragged one
\* is on the board with the fields (status, priority) it had before.
C18_OnlyDraggedReclassified ==
    last.ev \in {"DragOver", "DragEnd"}
    => /\ Len(tasks) = Len(last.pre)
       /\ \A i \in 1..Len(last.pre) :
              last.pre[i].id # last.item
              => \E j \in 1..Len(tasks) : tasks[j] = last.pre[i]

\* The dragged task left a container that holds other tasks for the
\* container of the task it was over.
C18_Witness ==
    /\ LastWasCrossMove
    /\ FindIndex(last.pre, last.target) # -1
    /\ Len(Filtered(last.pre, findContainer(last.pre, last.item))) >= 2
    /\ findContainer(tasks, last.item) = LastOverContainer
    /\ findContainer(tasks, last.item) # findContainer(last.pre, last.item)

\* ----------------------------------------------------------------- C20
\* C20: on the rendered board, started from the initial tasks, no task ever
\* has the status "failed".
C20_FailedUnreachable ==
    \A i \in 1..Len(tasks) : tasks[i].status # "failed"

\* A board whose three rendered columns are all occupied: a task created in
\* one of them, a task dragged out of its first column, and a task left
\* where it started.
C20_Witness ==
    /\ \A c \in RenderedColumns : Len(Filtered(tasks, c)) >= 1
    /\ \E i \in 1..Len(tasks) : tasks[i].id \in NewIds
    /\ \E i \in 1..Len(tasks) :
           /\ FindIndex(StartTasks, tasks[i].id) # -1
           /\ tasks[i].status # findContainer(StartTasks, tasks[i].id)
    /\ \E i \in 1..Len(tasks) :
           /\ FindIndex(StartTasks, tasks[i].id) # -1
           /\ tasks[i].status = findContainer(StartTasks, tasks[i].id)

====
